---- MODULE Spec2Model ----
(***************************************************************************)
(* State-machine model of iol.py: low-level access to STM32 memory         *)
(* locations and device registers from MicroPython (classes Mem and        *)
(* RegArr, and the module-level bit-field functions they use).             *)
(*                                                                         *)
(* Representation of integers.  Register contents, addresses, masks and    *)
(* written values are Python integers of up to 33 significant bits, more   *)
(* than a TLC integer holds.  Such an integer n >= 0 is represented by the *)
(* set of the positions of its one bits (bit 0 = least significant), so    *)
(* 0xFFFFFAFF is (0..31) \ {8, 10}.  Small integers (sizes, bit numbers,   *)
(* indices, counts) are ordinary integers.                                 *)
(***************************************************************************)
EXTENDS Integers, Sequences, FiniteSets, TLC

VARIABLES
    obj,            \* the Mem object: [addr, size]           (Mem.__init__)
    arr,            \* the RegArr object: [reg_array, num_regs,
                    \*   fields_per_reg, bits_per_field]   (RegArr.__init__)
    little_endian,  \* module global set from sys.byteorder
    mem,            \* platform memory: aligned word address -> 32-bit word
    irq,            \* TRUE iff interrupts are enabled
    pc,             \* position of the main thread inside the current call
    call,           \* the call in progress or just finished, and its arguments
    loc,            \* local variables of the call in progress
    ret,            \* value returned by the finished call
    err,            \* "" or the exception the finished call raised
    reads,          \* platform reads performed by the call, in order
    writes,         \* platform writes performed by the call, in order
    ndis,           \* number of machine.disable_irq() calls made by the call
    isr_runs,       \* number of times the interrupt handler has run
    hw_changes,     \* number of times the hardware has changed the register
    ncalls          \* number of calls made on the register array

vars == << obj, arr, little_endian, mem, irq, pc, call, loc, ret, err,
           reads, writes, ndis, isr_runs, hw_changes, ncalls >>

-----------------------------------------------------------------------------
(* Bounds of the model *)

\* most interrupt handler runs in one behaviour
MaxIsr == 1

\* most hardware changes of the register in one behaviour
MaxHw == 1

\* most bit numbers passed to Mem.bits
MaxBitNums == 2

\* most calls made on a register array in one behaviour
MaxArrCalls == 2

-----------------------------------------------------------------------------
(* Python integers as sets of bit positions *)

RECURSIVE Pow2(_)
Pow2(n) == IF n = 0 THEN 1 ELSE 2 * Pow2(n - 1)

\* the representation of the integer n, 0 <= n < 2^31
ToBits(n) == { i \in 0..30 : (n \div Pow2(i)) % 2 = 1 }

\* the 32-bit word whose upper half is hi and lower half is lo
Word(hi, lo) == ToBits(lo) \cup { i + 16 : i \in ToBits(hi) }

\* a << k
Shl(a, k) == { i + k : i \in a }

\* a >> k
Shr(a, k) == { i - k : i \in { j \in a : j >= k } }

\* a & b
BitAnd(a, b) == a \cap b

\* a ^ b
BitXor(a, b) == (a \ b) \cup (b \ a)

\* a & ~b
BitAndNot(a, b) == a \ b

SetMin(s) == CHOOSE x \in s : \A y \in s : x <= y
SetMax(s) == CHOOSE x \in s : \A y \in s : x >= y

\* a - 1, for a > 0: the lowest one bit borrows
Dec(a) == LET k == SetMin(a) IN (a \ {k}) \cup (0..(k - 1))

\* a <= b
BitsLE(a, b) == a = b \/ SetMax(BitXor(a, b)) \in b

\* a + b by ripple carry from bit position i with carry c
RECURSIVE AddFrom(_, _, _, _)
AddFrom(a, b, i, c) ==
    IF c = 0 /\ { j \in a \cup b : j >= i } = {} THEN {}
    ELSE LET s == (IF i \in a THEN 1 ELSE 0) + (IF i \in b THEN 1 ELSE 0) + c
         IN  (IF s % 2 = 1 THEN {i} ELSE {}) \cup AddFrom(a, b, i + 1, s \div 2)

\* a + b
BitAdd(a, b) == AddFrom(a, b, 0, 0)

\* a Python int argument that may be negative: sign and magnitude
PyInt(neg, mag) == [neg |-> neg, mag |-> mag]
NonNeg(a) == PyInt(FALSE, a)

\* a Python object used where an int is expected: an int, None or a str
IntObj(n) == [t |-> "int", v |-> n]
None == [t |-> "none", v |-> 0]
StrObj == [t |-> "str", v |-> 0]

NoErr == ""
First(e1, e2) == IF e1 # NoErr THEN e1 ELSE e2

-----------------------------------------------------------------------------
(* Module-level checks and bit-field arithmetic *)

check_bits_size(size) ==
    IF size \notin {32, 16, 8} THEN "ValueError" ELSE NoErr

check_bit_num(bit_num, size) ==
    IF bit_num.t # "int" THEN "ValueError"
    ELSE IF ~(0 <= bit_num.v /\ bit_num.v <= size - 1) THEN "ValueError"
    ELSE NoErr

check_val_size(val, size) ==
    LET max_val == Dec(Shl({0}, size))
    IN  IF ~(~val.neg /\ BitsLE(val.mag, max_val)) THEN "ValueError" ELSE NoErr

check_bit_field_parms(num_bits, low_posn, size) ==
    IF check_bits_size(size) # NoErr THEN "ValueError"
    ELSE IF ~(1 <= num_bits /\ num_bits <= size) THEN "ValueError"
    ELSE IF ~(0 <= low_posn /\ low_posn <= size - 1) THEN "ValueError"
    ELSE IF ~(num_bits + low_posn <= size) THEN "ValueError"
    ELSE NoErr

\* [err, val]: the bit field of val
get_bit_field(val, num_bits, low_posn, size) ==
    LET e == First(check_bit_field_parms(num_bits, low_posn, size),
                   check_val_size(NonNeg(val), size))
    IN  IF e # NoErr THEN [err |-> e, val |-> {}]
        ELSE LET shifted == Shr(val, low_posn)
                 mask == Dec(Shl({0}, num_bits))
             IN  [err |-> NoErr, val |-> BitAnd(shifted, mask)]

\* [err, shifted, mask]: the bit maps for changing a bit field
get_bit_maps(val, num_bits, low_posn, size) ==
    LET e == First(check_bit_field_parms(num_bits, low_posn, size),
                   check_val_size(val, num_bits))
    IN  IF e # NoErr THEN [err |-> e, shifted |-> {}, mask |-> {}]
        ELSE [err |-> NoErr,
              shifted |-> Shl(val.mag, low_posn),
              mask |-> Shl(Dec(Shl({0}, num_bits)), low_posn)]

-----------------------------------------------------------------------------
(* Index keys *)

IntKey(n) == [kind |-> "int", start |-> IntObj(n), stop |-> None, step |-> None]
SliceKey(a, b, c) == [kind |-> "slice", start |-> a, stop |-> b, step |-> c]
OtherKey == [kind |-> "other", start |-> None, stop |-> None, step |-> None]

BitParmsErr(e) == [err |-> e, num_bits |-> 0, low_posn |-> 0]

\* lines 282-286 of get_bit_parms, for the bounds hi and lo
BitParmsOf(hi, lo, size) ==
    LET e == First(check_bit_num(hi, size), check_bit_num(lo, size))
    IN  IF e # NoErr THEN BitParmsErr(e)
        ELSE [err |-> NoErr, num_bits |-> (hi.v - lo.v) + 1, low_posn |-> lo.v]

\* [err, num_bits, low_posn]
get_bit_parms(key, size) ==
    IF key.kind = "int" THEN BitParmsOf(key.start, key.start, size)
    ELSE IF key.kind = "slice" THEN
        LET hi == key.start
            lo == key.stop
        IN  IF key.step.t # "none" THEN BitParmsErr("ValueError")
            ELSE IF hi.t = "none" /\ lo.t = "none"
                 THEN BitParmsOf(IntObj(size - 1), IntObj(0), size)
            ELSE IF hi.t = "none" \/ lo.t = "none" THEN BitParmsErr("ValueError")
            ELSE IF hi.t # lo.t THEN BitParmsErr("TypeError")  \* int > str
            ELSE IF hi.t = "int" /\ lo.v > hi.v THEN BitParmsOf(lo, hi, size)
            ELSE BitParmsOf(hi, lo, size)
    ELSE BitParmsErr("ValueError")

-----------------------------------------------------------------------------
(* The platform: machine.mem8/16/32, machine.disable_irq/enable_irq *)

WordAddr(addr) == BitAndNot(addr, {0, 1})
Lane(addr) == (IF 0 \in addr THEN 1 ELSE 0) + (IF 1 \in addr THEN 2 ELSE 0)

\* machine.mem{size}[addr] raises for an address that is not aligned
Misaligned(addr, size) == Lane(addr) % (size \div 8) # 0

\* the value machine.mem{size}[addr] returns (little-endian memory)
MemLoad(m, addr, size) ==
    BitAnd(Shr(m[WordAddr(addr)], 8 * Lane(addr)), 0..(size - 1))

\* the memory after machine.mem{size}[addr] = v
MemStore(m, addr, size, v) ==
    LET field == Shl(0..(size - 1), 8 * Lane(addr))
    IN  [m EXCEPT ![WordAddr(addr)] =
            (@ \ field) \cup Shl(BitAnd(v, 0..(size - 1)), 8 * Lane(addr))]

Access(addr, size, val) == [addr |-> addr, size |-> size, val |-> val]

-----------------------------------------------------------------------------
(* Module-level data access *)

ReadResult(e, v, rs) == [err |-> e, val |-> v, reads |-> rs]
WriteResult(e, m, ws) == [err |-> e, mem |-> m, writes |-> ws]

\* [err, val, reads]
read_data(m, addr, size) ==
    IF check_bits_size(size) # NoErr THEN ReadResult("ValueError", {}, << >>)
    ELSE IF Misaligned(addr, size) THEN ReadResult("PlatformError", {}, << >>)
    ELSE LET raw == MemLoad(m, addr, size)
             mask == Dec(Shl({0}, size))
         IN  ReadResult(NoErr, BitAnd(raw, mask), << Access(addr, size, raw) >>)

\* [err, mem, writes]
write_data(m, addr, val, size) ==
    LET e == First(check_bits_size(size), check_val_size(val, size))
    IN  IF e # NoErr THEN WriteResult(e, m, << >>)
        ELSE IF Misaligned(addr, size) THEN WriteResult("PlatformError", m, << >>)
        ELSE WriteResult(NoErr, MemStore(m, addr, size, val.mag),
                         << Access(addr, size, val.mag) >>)

\* [err, val, reads]
read_bit_field(m, addr, num_bits, low_posn, size) ==
    IF check_bit_field_parms(num_bits, low_posn, size) # NoErr
    THEN ReadResult("ValueError", {}, << >>)
    ELSE IF Misaligned(addr, size) THEN ReadResult("PlatformError", {}, << >>)
    ELSE LET raw == MemLoad(m, addr, size)
             mask == Dec(Shl({0}, size))
             f == get_bit_field(BitAnd(raw, mask), num_bits, low_posn, size)
         IN  ReadResult(f.err, f.val, << Access(addr, size, raw) >>)

\* lines 142-143 of write_bit_field: [err, shifted, mask]
write_bit_field_maps(val, num_bits, low_posn, size) ==
    IF check_bit_field_parms(num_bits, low_posn, size) # NoErr
    THEN [err |-> "ValueError", shifted |-> {}, mask |-> {}]
    ELSE get_bit_maps(val, num_bits, low_posn, size)

\* write_bit_field_merge without the mask
write_bit_field_merge_unmasked(lhs, rhs, shifted, mask) ==
    BitXor(lhs, BitXor(rhs, shifted))

\* line 146 of write_bit_field, mem[addr] ^= (mem[addr] ^ shifted) & mask:
\* the value stored, from the value lhs loaded for the augmented assignment's
\* target and the value rhs loaded by the right-hand side
write_bit_field_merge(lhs, rhs, shifted, mask) ==
    BitXor(lhs, BitAnd(BitXor(rhs, shifted), mask))

-----------------------------------------------------------------------------
(* Inputs of the register specification *)

Sizes == {8, 16, 32}

\* 0x40020014 and 0x40020015
Addrs == { ToBits(1073872916), ToBits(1073872917) }

\* 0xFFFFFFFF, 0xABCD1234, 0x00000000
RegValues == { Word(65535, 65535), Word(43981, 4660), {} }

\* 0xFFFFF0FF and 0x55555555: contents the hardware may give the register
HwValues == { Word(65535, 61695), Word(21845, 21845) }

\* 0x0F0F0F0F: the word the interrupt handler writes
IsrValue == Word(3855, 3855)

\* 0, 1, 0xA, 0xFF, 0xFFFFFFFF, 0x100000000, -1
Vals == { NonNeg({}), NonNeg({0}), NonNeg({1, 3}), NonNeg(0..7), NonNeg(0..31),
          NonNeg({32}), PyInt(TRUE, {0}) }

SizeArgs == { None, IntObj(8), IntObj(16), IntObj(32), IntObj(24) }

EndPoints(size) == { -1, 0, 8, 11, size - 1, size }

Keys(size) ==
    { IntKey(n) : n \in EndPoints(size) }
    \cup { SliceKey(IntObj(a), IntObj(b), None) :
             a \in EndPoints(size), b \in EndPoints(size) }
    \cup { SliceKey(None, None, None), SliceKey(IntObj(3), None, None),
           SliceKey(None, IntObj(3), None),
           SliceKey(IntObj(3), IntObj(0), IntObj(1)),
           SliceKey(StrObj, IntObj(0), None), SliceKey(StrObj, StrObj, None),
           OtherKey }

BitNums(size) == { IntObj(0), IntObj(3), IntObj(size - 1), IntObj(size), StrObj }

BitNumSeqs(size) ==
    UNION { [1..n -> BitNums(size)] : n \in 0..MaxBitNums }

-----------------------------------------------------------------------------
(* State shared by the specifications *)

NoCall == [op |-> "none", key |-> OtherKey, val |-> NonNeg({}), size |-> None,
           bit_nums |-> << >>, index |-> None, tag |-> "", irq_entry |-> TRUE]

NoLoc == [addr |-> {}, size |-> 0, shifted |-> {}, mask |-> {},
          irq_state |-> TRUE, lhs |-> {}, rhs |-> {},
          reg_val |-> {}, bit_vals |-> << >>, i |-> 0,
          elem |-> 0, hi_bit |-> 0, lo_bit |-> 0]

NoArr == [reg_array |-> << >>, num_regs |-> 0, fields_per_reg |-> 0,
          bits_per_field |-> 0]

\* Mem.__init__: the object, for a size check_bits_size accepts
Mem(addr, size) == [addr |-> BitAnd(addr, 0..31), size |-> size]

Init ==
    /\ \E a \in Addrs, s \in Sizes :
          /\ check_bits_size(s) = NoErr
          /\ obj = Mem(a, s)
          /\ \E v \in RegValues : mem = [w \in {WordAddr(a)} |-> v]
    /\ arr = NoArr
    /\ little_endian = TRUE
    /\ irq \in BOOLEAN
    /\ pc = "idle"
    /\ call = NoCall
    /\ loc = NoLoc
    /\ ret = {}
    /\ err = NoErr
    /\ reads = << >>
    /\ writes = << >>
    /\ ndis = 0
    /\ isr_runs = 0
    /\ hw_changes = 0
    /\ ncalls = 0

Frame == UNCHANGED << obj, arr, little_endian, ncalls >>

\* a call that finishes in one step, without a critical section
Finish(c, r, e, rs, ws, m) ==
    /\ pc' = "done"
    /\ call' = c
    /\ ret' = r
    /\ err' = e
    /\ reads' = rs
    /\ writes' = ws
    /\ mem' = m
    /\ UNCHANGED << irq, loc, ndis, isr_runs, hw_changes >>
    /\ Frame

-----------------------------------------------------------------------------
(* Mem.read, Mem.write, Mem.__getitem__ *)

SizeOf(sz) == IF sz.t = "none" THEN obj.size ELSE sz.v

\* Mem.read(size=sz)
MemRead ==
    /\ pc = "idle"
    /\ \E sz \in SizeArgs :
          LET r == read_data(mem, obj.addr, SizeOf(sz))
          IN  Finish([NoCall EXCEPT !.op = "read", !.size = sz, !.irq_entry = irq],
                     r.val, r.err, r.reads, << >>, mem)

\* Mem.write(val, size=sz)
MemWrite ==
    /\ pc = "idle"
    /\ \E val \in Vals, sz \in SizeArgs :
          LET r == write_data(mem, obj.addr, val, SizeOf(sz))
          IN  Finish([NoCall EXCEPT !.op = "write", !.val = val, !.size = sz,
                                    !.irq_entry = irq],
                     {}, r.err, << >>, r.writes, r.mem)

\* what Mem.__getitem__(key) does on memory m: [err, val, reads]
Mem_getitem(m, o, key) ==
    LET p == get_bit_parms(key, o.size)
    IN  IF p.err # NoErr THEN ReadResult(p.err, {}, << >>)
        ELSE read_bit_field(m, o.addr, p.num_bits, p.low_posn, o.size)

\* Mem.__getitem__(key)
MemGetItem ==
    /\ pc = "idle"
    /\ \E key \in Keys(obj.size) :
          LET r == Mem_getitem(mem, obj, key)
          IN  Finish([NoCall EXCEPT !.op = "getitem", !.key = key, !.irq_entry = irq],
                     r.val, r.err, r.reads, << >>, mem)

-----------------------------------------------------------------------------
(* Mem.__setitem__ and write_bit_field, statement by statement *)

\* Mem.__setitem__(key, val) up to line 144 of write_bit_field: the checks
MemSetItem ==
    /\ pc = "idle"
    /\ \E key \in Keys(obj.size), val \in Vals :
          LET c == [NoCall EXCEPT !.op = "setitem", !.key = key, !.val = val,
                                  !.irq_entry = irq]
              p == get_bit_parms(key, obj.size)
              b == write_bit_field_maps(val, p.num_bits, p.low_posn, obj.size)
          IN  IF p.err # NoErr THEN Finish(c, {}, p.err, << >>, << >>, mem)
              ELSE IF b.err # NoErr THEN Finish(c, {}, b.err, << >>, << >>, mem)
              ELSE /\ pc' = "wbf_disable"
                   /\ call' = c
                   /\ loc' = [NoLoc EXCEPT !.addr = obj.addr, !.size = obj.size,
                                           !.shifted = b.shifted, !.mask = b.mask]
                   /\ ret' = {}
                   /\ err' = NoErr
                   /\ reads' = << >>
                   /\ writes' = << >>
                   /\ UNCHANGED << mem, irq, ndis, isr_runs, hw_changes >>
                   /\ Frame

\* WbfDisable leaving interrupts as they are
WbfDisable_open ==
    /\ pc = "wbf_disable"
    /\ loc' = [loc EXCEPT !.irq_state = irq]
    /\ ndis' = ndis + 1
    /\ pc' = "wbf_target"
    /\ UNCHANGED << mem, irq, call, ret, err, reads, writes, isr_runs, hw_changes >>
    /\ Frame

\* line 145: irq_state = machine.disable_irq()
WbfDisable ==
    /\ pc = "wbf_disable"
    /\ loc' = [loc EXCEPT !.irq_state = irq]
    /\ irq' = FALSE
    /\ ndis' = ndis + 1
    /\ pc' = "wbf_target"
    /\ UNCHANGED << mem, call, ret, err, reads, writes, isr_runs, hw_changes >>
    /\ Frame

\* an exception raised by the platform inside write_bit_field propagates
WbfRaise ==
    /\ pc' = "done"
    /\ err' = "PlatformError"
    /\ UNCHANGED << mem, irq, call, loc, ret, reads, writes, ndis, isr_runs,
                    hw_changes >>
    /\ Frame

\* line 146, first load: the current value of the target mem[addr]
WbfLoadTarget ==
    /\ pc = "wbf_target"
    /\ IF Misaligned(loc.addr, loc.size) THEN WbfRaise
       ELSE LET raw == MemLoad(mem, loc.addr, loc.size)
            IN  /\ loc' = [loc EXCEPT !.lhs = raw]
                /\ reads' = Append(reads, Access(loc.addr, loc.size, raw))
                /\ pc' = "wbf_operand"
                /\ UNCHANGED << mem, irq, call, ret, err, writes, ndis, isr_runs,
                                hw_changes >>
                /\ Frame

\* line 146, second load: mem[addr] inside the right-hand side
WbfLoadOperand ==
    /\ pc = "wbf_operand"
    /\ IF Misaligned(loc.addr, loc.size) THEN WbfRaise
       ELSE LET raw == MemLoad(mem, loc.addr, loc.size)
            IN  /\ loc' = [loc EXCEPT !.rhs = raw]
                /\ reads' = Append(reads, Access(loc.addr, loc.size, raw))
                /\ pc' = "wbf_store"
                /\ UNCHANGED << mem, irq, call, ret, err, writes, ndis, isr_runs,
                                hw_changes >>
                /\ Frame

\* line 146, the store of the merged value
WbfStore ==
    /\ pc = "wbf_store"
    /\ IF Misaligned(loc.addr, loc.size) THEN WbfRaise
       ELSE LET new == write_bit_field_merge(loc.lhs, loc.rhs, loc.shifted, loc.mask)
            IN  /\ mem' = MemStore(mem, loc.addr, loc.size, new)
                /\ writes' = Append(writes, Access(loc.addr, loc.size, new))
                /\ pc' = "wbf_enable"
                /\ UNCHANGED << irq, call, loc, ret, err, reads, ndis, isr_runs,
                                hw_changes >>
                /\ Frame

\* line 147: machine.enable_irq(irq_state)
WbfEnable ==
    /\ pc = "wbf_enable"
    /\ irq' = loc.irq_state
    /\ pc' = "done"
    /\ UNCHANGED << mem, call, loc, ret, err, reads, writes, ndis, isr_runs,
                    hw_changes >>
    /\ Frame

-----------------------------------------------------------------------------
(* Mem.bits, statement by statement *)

\* Mem.bits(*bit_nums), lines 329-330: bit_vals = [], reg_val = self.read()
MemBits ==
    /\ pc = "idle"
    /\ \E bit_nums \in BitNumSeqs(obj.size) :
          LET c == [NoCall EXCEPT !.op = "bits", !.bit_nums = bit_nums,
                                  !.irq_entry = irq]
              r == read_data(mem, obj.addr, obj.size)
          IN  IF r.err # NoErr THEN Finish(c, {}, r.err, r.reads, << >>, mem)
              ELSE /\ pc' = "bits_loop"
                   /\ call' = c
                   /\ loc' = [NoLoc EXCEPT !.addr = obj.addr, !.size = obj.size,
                                           !.reg_val = r.val, !.i = 1]
                   /\ ret' = {}
                   /\ err' = NoErr
                   /\ reads' = r.reads
                   /\ writes' = << >>
                   /\ UNCHANGED << mem, irq, ndis, isr_runs, hw_changes >>
                   /\ Frame

\* the value line 333 appends for bit_num
bits_value(reg_val, bit_num) ==
    IF BitAnd(reg_val, Shl({0}, bit_num)) # {} THEN 1 ELSE 0

\* BitsStep reading the register again for every bit
BitsStep_reread ==
    /\ pc = "bits_loop"
    /\ loc.i <= Len(call.bit_nums)
    /\ LET bit_num == call.bit_nums[loc.i]
           r == read_data(mem, loc.addr, loc.size)
       IN  IF check_bit_num(bit_num, loc.size) # NoErr
           THEN /\ pc' = "done"
                /\ err' = "ValueError"
                /\ UNCHANGED << loc, reads >>
           ELSE /\ loc' = [loc EXCEPT
                      !.bit_vals = Append(@, bits_value(r.val, bit_num.v)),
                      !.i = @ + 1]
                /\ reads' = reads \o r.reads
                /\ UNCHANGED << pc, err >>
    /\ UNCHANGED << mem, irq, call, ret, writes, ndis, isr_runs, hw_changes >>
    /\ Frame

\* lines 331-333: one iteration of the loop
BitsStep ==
    /\ pc = "bits_loop"
    /\ loc.i <= Len(call.bit_nums)
    /\ LET bit_num == call.bit_nums[loc.i]
       IN  IF check_bit_num(bit_num, loc.size) # NoErr
           THEN /\ pc' = "done"
                /\ err' = "ValueError"
                /\ UNCHANGED loc
           ELSE /\ loc' = [loc EXCEPT
                      !.bit_vals = Append(@, bits_value(loc.reg_val, bit_num.v)),
                      !.i = @ + 1]
                /\ UNCHANGED << pc, err >>
    /\ UNCHANGED << mem, irq, call, ret, reads, writes, ndis, isr_runs, hw_changes >>
    /\ Frame

\* line 334: return tuple(bit_vals)
BitsReturn ==
    /\ pc = "bits_loop"
    /\ loc.i > Len(call.bit_nums)
    /\ ret' = loc.bit_vals
    /\ pc' = "done"
    /\ UNCHANGED << mem, irq, call, loc, err, reads, writes, ndis, isr_runs,
                    hw_changes >>
    /\ Frame

-----------------------------------------------------------------------------
(* The environment of a call in progress *)

Running == pc \notin {"idle", "done"}

\* the device changes the contents of the register
Hardware ==
    /\ Running
    /\ hw_changes < MaxHw
    /\ \E v \in HwValues : mem' = [w \in DOMAIN mem |-> v]
    /\ hw_changes' = hw_changes + 1
    /\ UNCHANGED << irq, pc, call, loc, ret, err, reads, writes, ndis, isr_runs >>
    /\ Frame

\* an interrupt handler runs to completion and writes the register
Isr ==
    /\ Running
    /\ irq
    /\ isr_runs < MaxIsr
    /\ mem' = [w \in DOMAIN mem |-> IsrValue]
    /\ isr_runs' = isr_runs + 1
    /\ UNCHANGED << irq, pc, call, loc, ret, err, reads, writes, ndis, hw_changes >>
    /\ Frame

Next ==
    \/ MemRead
    \/ MemWrite
    \/ MemGetItem
    \/ MemSetItem
    \/ WbfDisable
    \/ WbfLoadTarget
    \/ WbfLoadOperand
    \/ WbfStore
    \/ WbfEnable
    \/ MemBits
    \/ BitsStep
    \/ BitsReturn
    \/ Hardware
    \/ Isr

Spec == Init /\ [][Next]_vars

-----------------------------------------------------------------------------
(* Mem.derive and the specification of derivation *)

\* value type -> << size, little-endian offset, big-endian offset >>
value_types ==
    [ t \in {"32", "16L", "16H", "8Ll", "8Lh", "8Hl", "8Hh"} |->
        CASE t = "32"  -> << 32, 0, 0 >>
          [] t = "16L" -> << 16, 0, 2 >>
          [] t = "16H" -> << 16, 2, 0 >>
          [] t = "8Ll" -> << 8, 0, 3 >>
          [] t = "8Lh" -> << 8, 1, 2 >>
          [] t = "8Hl" -> << 8, 2, 1 >>
          [] t = "8Hh" -> << 8, 3, 0 >> ]

DeriveResult(e, o) == [err |-> e, obj |-> o]

\* Mem.derive adding the offset to the register's own address
Mem_derive_unanchored(o, new_type, le) ==
    IF new_type \notin DOMAIN value_types THEN DeriveResult("ValueError", o)
    ELSE LET info == value_types[new_type]
             offset == IF le THEN info[2] ELSE info[3]
             new_addr == BitAdd(o.addr, ToBits(offset))
         IN  DeriveResult(NoErr, Mem(new_addr, info[1]))

\* Mem.derive(new_type) on the object o: [err, obj], obj the new object
Mem_derive(o, new_type, le) ==
    IF new_type \notin DOMAIN value_types THEN DeriveResult("ValueError", o)
    ELSE LET info == value_types[new_type]
             new_size == info[1]
             offset == IF le THEN info[2] ELSE info[3]
             new_addr == BitAdd(BitAndNot(o.addr, ToBits(3)), ToBits(offset))
         IN  DeriveResult(NoErr, Mem(new_addr, new_size))

\* 0x40020014 .. 0x40020017, 0xFFFFFFFF, 0x00000002 and 0x140020015
DeriveAddrs ==
    { ToBits(1073872916), ToBits(1073872917), ToBits(1073872918),
      ToBits(1073872919), 0..31, {1}, ToBits(1073872917) \cup {32} }

DeriveTags == DOMAIN value_types \cup {"16", "8LL"}

InitDerive ==
    /\ \E a \in DeriveAddrs, s \in Sizes :
          /\ check_bits_size(s) = NoErr
          /\ obj = Mem(a, s)
    /\ little_endian \in BOOLEAN
    /\ arr = NoArr
    /\ mem = << >>
    /\ irq = TRUE
    /\ pc = "idle"
    /\ call = NoCall
    /\ loc = NoLoc
    /\ ret = obj
    /\ err = NoErr
    /\ reads = << >>
    /\ writes = << >>
    /\ ndis = 0
    /\ isr_runs = 0
    /\ hw_changes = 0
    /\ ncalls = 0

\* new = reg.derive(new_type)
Derive ==
    /\ pc = "idle"
    /\ \E new_type \in DeriveTags :
          LET r == Mem_derive(obj, new_type, little_endian)
          IN  /\ call' = [NoCall EXCEPT !.op = "derive", !.tag = new_type]
              /\ ret' = r.obj
              /\ err' = r.err
    /\ pc' = "done"
    /\ UNCHANGED << mem, irq, loc, reads, writes, ndis, isr_runs, hw_changes >>
    /\ Frame

\* the program goes on with the derived register: reg = new
Rebind ==
    /\ pc = "done"
    /\ call.op = "derive"
    /\ err = NoErr
    /\ obj' = ret
    /\ pc' = "idle"
    /\ UNCHANGED << arr, little_endian, mem, irq, call, loc, ret, err, reads,
                    writes, ndis, isr_runs, hw_changes, ncalls >>

NextDerive ==
    \/ Derive
    \/ Rebind

SpecDerive == InitDerive /\ [][NextDerive]_vars

-----------------------------------------------------------------------------
(* RegArr and the specification of register arrays *)

FieldParms(e, elem, hi_bit, lo_bit) ==
    [err |-> e, elem |-> elem, hi_bit |-> hi_bit, lo_bit |-> lo_bit]

\* get_field_parms multiplying the position by the number of fields
get_field_parms_swapped(key, reg_arr) ==
    IF key.t # "int" THEN FieldParms("ValueError", 0, 0, 0)
    ELSE LET max_index == (reg_arr.num_regs * reg_arr.fields_per_reg) - 1
         IN  IF ~(0 <= key.v /\ key.v <= max_index)
             THEN FieldParms("ValueError", 0, 0, 0)
             ELSE LET elem == key.v \div reg_arr.fields_per_reg
                      pos == key.v % reg_arr.fields_per_reg
                      lo_bit == pos * reg_arr.fields_per_reg
                      hi_bit == lo_bit + reg_arr.bits_per_field - 1
                  IN  FieldParms(NoErr, elem, hi_bit, lo_bit)

\* [err, elem, hi_bit, lo_bit]
get_field_parms(key, reg_arr) ==
    IF key.t # "int" THEN FieldParms("ValueError", 0, 0, 0)
    ELSE LET max_index == (reg_arr.num_regs * reg_arr.fields_per_reg) - 1
         IN  IF ~(0 <= key.v /\ key.v <= max_index)
             THEN FieldParms("ValueError", 0, 0, 0)
             ELSE LET elem == key.v \div reg_arr.fields_per_reg
                      pos == key.v % reg_arr.fields_per_reg
                      lo_bit == pos * reg_arr.bits_per_field
                      hi_bit == lo_bit + reg_arr.bits_per_field - 1
                  IN  FieldParms(NoErr, elem, hi_bit, lo_bit)

\* RegArr.__init__ from the registers its labels name: [err, arr]
RegArr(regs, fields_per_reg, bits_per_field) ==
    IF \E i \in 1..Len(regs) : regs[i].size # 32
    THEN [err |-> "ValueError", arr |-> NoArr]
    ELSE IF ~(1 <= fields_per_reg * bits_per_field
              /\ fields_per_reg * bits_per_field <= 32)
    THEN [err |-> "ValueError", arr |-> NoArr]
    ELSE [err |-> NoErr,
          arr |-> [reg_array |-> regs, num_regs |-> Len(regs),
                   fields_per_reg |-> fields_per_reg,
                   bits_per_field |-> bits_per_field]]

\* RegArr.__getitem__(key) on memory m: [err, val, reads]
RegArr_getitem(m, reg_arr, key) ==
    LET f == get_field_parms(key, reg_arr)
    IN  IF f.err # NoErr THEN ReadResult(f.err, {}, << >>)
        ELSE Mem_getitem(m, reg_arr.reg_array[f.elem + 1],
                         SliceKey(IntObj(f.hi_bit), IntObj(f.lo_bit), None))

\* 0x40020020 and 0x40020024: GPIOA.AFR0 and GPIOA.AFR1
ArrWords == << ToBits(1073872928), ToBits(1073872932) >>

\* the registers the labels name: one register, two registers, the same
\* register twice, and a register of 16 bits
ArrRegSeqs ==
    { << Mem(ArrWords[1], 32) >>,
      << Mem(ArrWords[1], 32), Mem(ArrWords[2], 32) >>,
      << Mem(ArrWords[1], 32), Mem(ArrWords[1], 32) >>,
      << Mem(ArrWords[1], 16) >> }

\* << fields_per_reg, bits_per_field >>
ArrGeometries ==
    { << 4, 8 >>, << 3, 10 >>, << 1, 32 >>, << -1, -1 >>, << 5, 8 >>, << 0, 4 >> }

\* 0xFFFFFFFF / 0xFFFFFFFF and 0xABCD1234 / 0x00000000
ArrMemories ==
    { [w \in {ArrWords[1], ArrWords[2]} |-> 0..31],
      [w \in {ArrWords[1], ArrWords[2]} |->
          IF w = ArrWords[1] THEN Word(43981, 4660) ELSE {}] }

\* 0xA5, 0x3FF, 0x100000000
ArrVals == { NonNeg({0, 2, 5, 7}), NonNeg(0..9), NonNeg({32}) }

ArrKeys(reg_arr) ==
    LET n == reg_arr.num_regs * reg_arr.fields_per_reg
    IN  { IntObj(k) : k \in {-1, 0, 1, 5, n - 1, n} } \cup { StrObj }

InitArr ==
    /\ \E regs \in ArrRegSeqs, g \in ArrGeometries :
          LET r == RegArr(regs, g[1], g[2])
          IN  r.err = NoErr /\ arr = r.arr
    /\ mem \in ArrMemories
    /\ obj = Mem(ArrWords[1], 32)
    /\ little_endian = TRUE
    /\ irq = TRUE
    /\ pc = "idle"
    /\ call = NoCall
    /\ loc = NoLoc
    /\ ret = {}
    /\ err = NoErr
    /\ reads = << >>
    /\ writes = << >>
    /\ ndis = 0
    /\ isr_runs = 0
    /\ hw_changes = 0
    /\ ncalls = 0

\* the locals elem, hi_bit, lo_bit of the array call with this key
ArrLoc(key) ==
    LET f == get_field_parms(key, arr)
    IN  [NoLoc EXCEPT !.elem = f.elem, !.hi_bit = f.hi_bit, !.lo_bit = f.lo_bit]

\* RegArr.__getitem__(key)
ArrGetItem ==
    /\ pc \in {"idle", "done"}
    /\ ncalls < MaxArrCalls
    /\ \E key \in ArrKeys(arr) :
          LET r == RegArr_getitem(mem, arr, key)
          IN  /\ call' = [NoCall EXCEPT !.op = "arr_get", !.index = key,
                                        !.irq_entry = irq]
              /\ loc' = ArrLoc(key)
              /\ ret' = r.val
              /\ err' = r.err
              /\ reads' = r.reads
    /\ writes' = << >>
    /\ ndis' = 0
    /\ pc' = "done"
    /\ ncalls' = ncalls + 1
    /\ UNCHANGED << obj, arr, little_endian, mem, irq, isr_runs, hw_changes >>

\* RegArr.__setitem__(key, val) up to line 144 of write_bit_field: the checks
\* of get_field_parms, of Mem.__setitem__ and of get_bit_maps
ArrSetItem ==
    /\ pc \in {"idle", "done"}
    /\ ncalls < MaxArrCalls
    /\ \E key \in ArrKeys(arr), val \in ArrVals :
          LET f == get_field_parms(key, arr)
              reg == arr.reg_array[f.elem + 1]
              p == get_bit_parms(SliceKey(IntObj(f.hi_bit), IntObj(f.lo_bit), None),
                                 reg.size)
              b == write_bit_field_maps(val, p.num_bits, p.low_posn, reg.size)
              e == IF f.err # NoErr THEN f.err ELSE First(p.err, b.err)
          IN  /\ call' = [NoCall EXCEPT !.op = "arr_set", !.index = key,
                                        !.val = val, !.irq_entry = irq]
              /\ err' = e
              /\ IF e # NoErr
                 THEN /\ loc' = ArrLoc(key)
                      /\ pc' = "done"
                 ELSE /\ loc' = [ArrLoc(key) EXCEPT !.addr = reg.addr,
                                      !.size = reg.size, !.shifted = b.shifted,
                                      !.mask = b.mask]
                      /\ pc' = "wbf_disable"
    /\ ret' = {}
    /\ reads' = << >>
    /\ writes' = << >>
    /\ ndis' = 0
    /\ ncalls' = ncalls + 1
    /\ UNCHANGED << obj, arr, little_endian, mem, irq, isr_runs, hw_changes >>

NextArr ==
    \/ ArrGetItem
    \/ ArrSetItem
    \/ WbfDisable
    \/ WbfLoadTarget
    \/ WbfLoadOperand
    \/ WbfStore
    \/ WbfEnable
    \/ Hardware
    \/ Isr

SpecArr == InitArr /\ [][NextArr]_vars

-----------------------------------------------------------------------------
(* Properties of the register operations, checked under Spec *)

\* the bit positions of the field the finished or running call's key names
FieldOf(key, size) ==
    LET p == get_bit_parms(key, size)
    IN  p.low_posn .. (p.low_posn + p.num_bits - 1)

\* C1: in every masked field write, the value handed to the platform write
\* equals, outside the field, the register value read during the operation and,
\* inside the field, value << low_position, whatever the platform reads return.
C1_MaskedMerge ==
    (call.op = "setitem" /\ Len(writes) = 1) =>
        LET f == FieldOf(call.key, obj.size)
            p == get_bit_parms(call.key, obj.size)
            w == writes[1].val
        IN  /\ \E i \in 1..Len(reads) : w \ f = reads[i].val \ f
            /\ w \cap f = Shl(call.val.mag, p.low_posn)

\* C2: no interrupt handler runs between the first platform read and the
\* platform write of write_bit_field; so unless the hardware itself changed the
\* register, both values read are the register's value at the store and no
\* handler's write is overwritten with stale bits.
C2_NoHandlerInside ==
    /\ [][(pc \in {"wbf_operand", "wbf_store"}) => (isr_runs' = isr_runs)]_vars
    /\ []((pc = "wbf_store" /\ hw_changes = 0) =>
            /\ loc.lhs = MemLoad(mem, loc.addr, loc.size)
            /\ loc.rhs = MemLoad(mem, loc.addr, loc.size))

\* a field write is between its first read and its store, interrupts were
\* enabled when it was called, and only their being disabled keeps the handler out
C2_Witness ==
    /\ pc = "wbf_store"
    /\ call.irq_entry
    /\ ~irq
    /\ isr_runs < MaxIsr

\* C3: every field write leaves the interrupt-enable state as it was at call
\* entry, on normal return, on a validation error and on an error raised by a
\* platform access inside the critical section.
C3_IrqRestored ==
    (pc = "done" /\ call.op = "setitem") => irq = call.irq_entry

\* C4: a call that raises a validation error has issued no platform read, no
\* platform write and no interrupt-disable.
C4_FailBeforeAccess ==
    (pc = "done" /\ err \in {"ValueError", "TypeError"}) =>
        /\ reads = << >>
        /\ writes = << >>
        /\ ndis = 0

\* C5: Mem.bits with valid bit numbers issues exactly one platform read, and
\* every returned bit, in request order, is the bit of that one value read,
\* even if the register changes while the bits are extracted.
C5_OneSnapshot ==
    /\ (call.op = "bits" /\ pc = "bits_loop") => Len(reads) = 1
    /\ (call.op = "bits" /\ pc = "done" /\ err = NoErr) =>
          /\ Len(reads) = 1
          /\ writes = << >>
          /\ Len(ret) = Len(call.bit_nums)
          /\ \A i \in 1..Len(call.bit_nums) :
                ret[i] = IF call.bit_nums[i].v \in reads[1].val THEN 1 ELSE 0

\* Mem.bits returned two or more bits, and the register has changed since the
\* read at a requested bit
C5_Witness ==
    /\ call.op = "bits"
    /\ pc = "done"
    /\ err = NoErr
    /\ Len(call.bit_nums) >= 2
    /\ \E i \in 1..Len(call.bit_nums) :
          ret[i] # (IF call.bit_nums[i].v \in MemLoad(mem, obj.addr, obj.size)
                    THEN 1 ELSE 0)

\* C6: a field write of v followed, with no intervening change to the
\* register, by a field read with the same key returns v.
C6_RoundTrip ==
    (call.op = "setitem" /\ Len(writes) = 1) =>
        LET after == MemStore(mem, obj.addr, obj.size, writes[1].val)
            r == Mem_getitem(after, obj, call.key)
        IN  r.err = NoErr /\ r.val = call.val.mag

\* the keys [:] and [size-1 : 0]
WholeKeys(size) ==
    { SliceKey(None, None, None), SliceKey(IntObj(size - 1), IntObj(0), None) }

\* C7: reading with [:] or [size-1:0] returns what read() returns, and writing v
\* with [:] or [size-1:0] is accepted or rejected as write(v) is and leaves the
\* register with the value write(v) leaves.
C7_WholeIsFullWidth ==
    (pc = "done" /\ call.key \in WholeKeys(obj.size)) =>
        /\ call.op = "getitem" =>
              /\ err = read_data(mem, obj.addr, obj.size).err
              /\ err = NoErr =>
                    ret = read_data(MemStore(mem, obj.addr, obj.size, reads[1].val),
                                    obj.addr, obj.size).val
        /\ call.op = "setitem" =>
              LET w == write_data(mem, obj.addr, call.val, obj.size)
              IN  /\ err = w.err
                  /\ err = NoErr =>
                        /\ Len(writes) = 1
                        /\ writes[1].val = w.writes[1].val

-----------------------------------------------------------------------------
(* Properties of Mem.derive, checked under SpecDerive *)

\* the table of the value types: width, little-endian / big-endian offset
TagWidth(tag) ==
    CASE tag = "32" -> 32
      [] tag \in {"16L", "16H"} -> 16
      [] tag \in {"8Ll", "8Lh", "8Hl", "8Hh"} -> 8

TagOffset(tag, le) ==
    CASE tag = "32"  -> 0
      [] tag = "16L" -> IF le THEN 0 ELSE 2
      [] tag = "16H" -> IF le THEN 2 ELSE 0
      [] tag = "8Ll" -> IF le THEN 0 ELSE 3
      [] tag = "8Lh" -> IF le THEN 1 ELSE 2
      [] tag = "8Hl" -> IF le THEN 2 ELSE 1
      [] tag = "8Hh" -> IF le THEN 3 ELSE 0

DeriveResultOk ==
    (pc = "done" /\ call.op = "derive") =>
        IF call.tag \in {"32", "16L", "16H", "8Ll", "8Lh", "8Hl", "8Hh"}
        THEN /\ err = NoErr
             /\ ret.size = TagWidth(call.tag)
             /\ ret.addr \ {0, 1} = obj.addr \ {0, 1}
             /\ Lane(ret.addr) = TagOffset(call.tag, little_endian)
             /\ (obj.addr = ToBits(1073872916) /\ call.tag = "16L") =>
                   ret.addr = IF little_endian THEN ToBits(1073872916)
                              ELSE ToBits(1073872918)
        ELSE err = "ValueError"

\* C9: for every register and recognised tag the derived register has the
\* tag's width and the address (address AND NOT 3) + the tag's offset for the
\* host byte order; an unrecognised tag is rejected; the original register is
\* never changed.
C9_DeriveReanchors ==
    /\ []DeriveResultOk
    /\ [][(pc = "idle" /\ pc' = "done") => (obj' = obj)]_vars

\* a byte register in lane 3 of its word has been derived to another lane
C9_Witness ==
    /\ pc = "done"
    /\ call.op = "derive"
    /\ err = NoErr
    /\ Lane(obj.addr) = 3
    /\ obj.size = 8
    /\ call.tag = "8Lh"
    /\ ret.addr # obj.addr

-----------------------------------------------------------------------------
(* Properties of RegArr, checked under SpecArr *)

ValidIdx(a) == 0 .. ((a.num_regs * a.fields_per_reg) - 1)

\* C8: a flat index in 0 .. num_regs*fields_per_reg - 1 is located at register
\* index div fields_per_reg, low bit (index mod fields_per_reg)*bits_per_field,
\* high bit low + bits_per_field - 1, and the call accesses that register;
\* every other index is rejected.
C8_FlatIndex ==
    (call.op \in {"arr_get", "arr_set"}) =>
        LET k == call.index
            fpr == arr.fields_per_reg
            bpf == arr.bits_per_field
        IN  IF k.t = "int" /\ k.v \in ValidIdx(arr)
            THEN /\ loc.elem \in 0 .. (arr.num_regs - 1)
                 /\ \E pos \in 0 .. (fpr - 1) :
                       /\ loc.elem * fpr + pos = k.v
                       /\ loc.lo_bit = pos * bpf
                 /\ loc.hi_bit = loc.lo_bit + bpf - 1
                 /\ (fpr = 4 /\ bpf = 8 /\ k.v = 5) =>
                       (loc.elem = 1 /\ loc.lo_bit = 8 /\ loc.hi_bit = 15)
                 /\ call.op = "arr_get" => err = NoErr
                 /\ \A i \in 1..Len(reads) :
                       reads[i].addr = arr.reg_array[loc.elem + 1].addr
                 /\ \A i \in 1..Len(writes) :
                       writes[i].addr = arr.reg_array[loc.elem + 1].addr
                 /\ (pc = "done" /\ err = NoErr) =>
                       /\ reads # << >>
                       /\ call.op = "arr_set" => Len(writes) = 1
                 /\ (call.op = "arr_get" /\ err = NoErr) =>
                       ret = Shr(BitAnd(reads[1].val, loc.lo_bit .. loc.hi_bit),
                                 loc.lo_bit)
            ELSE /\ err = "ValueError"
                 /\ reads = << >>
                 /\ writes = << >>

\* index 5 of an array of two registers of four 8-bit fields has been read
C8_Witness ==
    /\ call.op = "arr_get"
    /\ err = NoErr
    /\ call.index = IntObj(5)
    /\ arr.fields_per_reg = 4
    /\ arr.bits_per_field = 8
    /\ arr.num_regs = 2
    /\ loc.elem = 1

\* the value RegArr.__getitem__(j) returns on memory m
ArrField(m, a, j) == RegArr_getitem(m, a, IntObj(j)).val

\* no two members of the array are the same register
Distinct(a) ==
    \A i, j \in 1..a.num_regs :
        i # j => a.reg_array[i].addr # a.reg_array[j].addr

\* every valid index addresses bits inside 0..31 of one member register, and
\* distinct valid indices address disjoint bit ranges
ArrGeometry ==
    /\ \A i \in ValidIdx(arr) :
          LET f == get_field_parms(IntObj(i), arr)
          IN  /\ f.err = NoErr
              /\ f.elem \in 0 .. (arr.num_regs - 1)
              /\ 0 <= f.lo_bit /\ f.lo_bit <= f.hi_bit /\ f.hi_bit <= 31
    /\ \A i, j \in ValidIdx(arr) :
          LET f == get_field_parms(IntObj(i), arr)
              g == get_field_parms(IntObj(j), arr)
          IN  i # j => (f.elem # g.elem \/ f.hi_bit < g.lo_bit \/ g.hi_bit < f.lo_bit)

\* this step is the store of a RegArr.__setitem__
ArrWriteStep ==
    /\ call.op = "arr_set"
    /\ pc = "wbf_store"
    /\ pc' = "wbf_enable"

\* this step is a step of a RegArr.__setitem__ other than its store
ArrQuietStep ==
    /\ call'.op = "arr_set"
    /\ pc' # pc
    /\ pc # "wbf_store"

\* the store changes only the bits of the written field in its register: with
\* seen the memory in which the written register holds the value the write
\* read from it, every other field reads back as in seen, every bit outside
\* the field is as in seen, and every other register is as it was
ArrFrame ==
    LET i == call.index.v
        f == get_field_parms(IntObj(i), arr)
        a == WordAddr(arr.reg_array[f.elem + 1].addr)
        seen == [mem EXCEPT ![a] = loc.lhs]
    IN  /\ \A j \in ValidIdx(arr) \ {i} : ArrField(mem', arr, j) = ArrField(seen, arr, j)
        /\ \A k \in 1..arr.num_regs :
              k # f.elem + 1 =>
                 mem'[WordAddr(arr.reg_array[k].addr)]
                    = mem[WordAddr(arr.reg_array[k].addr)]
        /\ mem'[a] \ (f.lo_bit .. f.hi_bit) = seen[a] \ (f.lo_bit .. f.hi_bit)
        /\ \A w \in DOMAIN mem \ {a} : mem'[w] = mem[w]

\* C10 as stated: in any constructed array every valid index addresses a bit
\* range inside bits 0..31 of one member register, distinct indices address
\* disjoint ranges, and a write to index i changes only the bits of field i,
\* leaving every other field's read-back value, every uncovered bit and every
\* other member register unchanged.
C10_FieldIsolation ==
    /\ []ArrGeometry
    /\ [][ArrQuietStep => (mem' = mem)]_vars
    /\ [][ArrWriteStep => ArrFrame]_vars

\* C10 amended: the same, for an array whose member registers are pairwise
\* distinct.
C10_FieldIsolationDistinct ==
    /\ []ArrGeometry
    /\ [][ArrQuietStep => (mem' = mem)]_vars
    /\ [][(ArrWriteStep /\ Distinct(arr)) => ArrFrame]_vars

\* the second call on an array of two distinct registers with several fields
\* each was a write that changed its register
C10_Witness ==
    /\ call.op = "arr_set"
    /\ pc = "done"
    /\ err = NoErr
    /\ ncalls = 2
    /\ arr.num_regs = 2
    /\ Distinct(arr)
    /\ arr.fields_per_reg >= 3
    /\ writes[1].val # reads[1].val

====
